---- MODULE Spec2Model ----
(***************************************************************************)
(* Model of examples/cupstree.py (pycups): the recursive walk over the     *)
(* printers and classes of a CUPS server that follows ipp: device URIs to  *)
(* other servers and prints an indented tree.                              *)
(*                                                                         *)
(* Strings are sequences of one-character strings, so that find, rfind,   *)
(* slicing and startswith are computed the way Python computes them.       *)
(* The Python call stack is the sequence `stack`; every frame carries the  *)
(* locals of the function it belongs to.  The servers' configuration is    *)
(* drawn in Init and never changes; the outcome of every remote operation  *)
(* (connect, list, get attributes) is chosen when the operation runs.      *)
(***************************************************************************)
EXTENDS Integers, Sequences, FiniteSets, TLC

VARIABLES servers,   \* host -> [printers, classes]: what each CUPS server reports
          server,    \* the process-wide current server (cups.setServer)
          stack,     \* the Python call stack, bottom first
          out,       \* what has been printed, in order
          status,    \* "init", "running", "done" or "aborted" (uncaught exception)
          err,       \* the uncaught exception and the function that raised it
          conns,     \* the hosts cups.Connection () was attempted on by a follow
          ev         \* the last remote follow step and its outcome

vars == <<servers, server, stack, out, status, err, conns, ev>>

----------------------------------------------------------------------------
(* Bounds of the model *)

\* The call stack is explored up to this many frames.
MaxStack == 7

----------------------------------------------------------------------------
(* Python string operations *)

\* s.find (ch): the 0-based index of the first ch, or -1
Find(s, ch) ==
    IF \E i \in 1..Len(s) : s[i] = ch
    THEN (CHOOSE i \in 1..Len(s) : s[i] = ch /\ \A j \in 1..(i - 1) : s[j] # ch) - 1
    ELSE -1

\* s.rfind (ch): the 0-based index of the last ch, or -1
RFind(s, ch) ==
    IF \E i \in 1..Len(s) : s[i] = ch
    THEN (CHOOSE i \in 1..Len(s) : s[i] = ch /\ \A j \in (i + 1)..Len(s) : s[j] # ch) - 1
    ELSE -1

\* a slice bound as Python normalises it: negative counts from the end, then clamped
SliceIndex(s, i) ==
    LET k == IF i < 0 THEN i + Len(s) ELSE i
    IN  IF k < 0 THEN 0 ELSE IF k > Len(s) THEN Len(s) ELSE k

\* s[lo:]
SliceFrom(s, lo) == SubSeq(s, SliceIndex(s, lo) + 1, Len(s))

\* s[:hi]
SliceTo(s, hi) == SubSeq(s, 1, SliceIndex(s, hi))

\* s.startswith (p)
StartsWith(s, p) == Len(s) >= Len(p) /\ SubSeq(s, 1, Len(p)) = p

\* "  " * indent
do_indent(indent) == [i \in 1..(2 * indent) |-> " "]

----------------------------------------------------------------------------
(* Program constants *)

\* the literal 'ipp:' tested by getqueue
IppScheme == <<"i", "p", "p", ":">>

\* dev[6:] in getippqueue: the number of characters dropped in front of the host
SchemeStrip == 6

\* cups.CUPS_PRINTER_CLASS, the class bit of printer-type
CUPS_PRINTER_CLASS == 1

\* the label gethost uses when it is given no host
LocalHost == <<"l", "o", "c", "a", "l", "h", "o", "s", "t">>

\* gethost's host argument when it is called without one
None == <<>>

\* status codes an IPPError can carry
IPP_OPERATION_NOT_SUPPORTED == "operation-not-supported"
IPP_NOT_AUTHORIZED == "not-authorized"
IPP_NOT_FOUND == "not-found"

----------------------------------------------------------------------------
(* The device-URI parsing of getippqueue *)

\* name = dev[dev.rfind ('/') + 1:]
ParseName(dev) == SliceFrom(dev, RFind(dev, "/") + 1)

\* dev = dev[6:]
StripScheme(dev) == SliceFrom(dev, SchemeStrip)

\* the variant that looks for the path delimiter before the port delimiter
HostEnd_PathFirst(rest) ==
    IF Find(rest, "/") = -1 THEN Find(rest, ":") ELSE Find(rest, "/")

\* e = dev.find (':'); if e == -1: e = dev.find ('/')
HostEnd(rest) ==
    IF Find(rest, ":") = -1 THEN Find(rest, "/") ELSE Find(rest, ":")

\* host = dev[:e]
ParseHost(dev) == SliceTo(StripScheme(dev), HostEnd(StripScheme(dev)))

\* dev.startswith ('ipp:')
IsIpp(dev) == StartsWith(dev, IppScheme)

\* the variant in which the exception's status code is what is compared
IPPErrorEquals_Status(e, code) == e.status = code

\* e == cups.IPP_OPERATION_NOT_SUPPORTED, e being the caught IPPError instance:
\* an exception object never equals a status code
IPPErrorEquals(e, code) == FALSE

\* queue['printer-type'] & cups.CUPS_PRINTER_CLASS
IsClass(queue) == (queue.ptype \div CUPS_PRINTER_CLASS) % 2 = 1

----------------------------------------------------------------------------
(* The servers the walk can meet *)

S == <<"S">>
T == <<"T">>
Hosts == {S, T}

P == <<"P">>
Q == <<"Q">>
C == <<"C">>

U_usb    == <<"u","s","b",":","/","/","E">>
U_ipps   == <<"i","p","p","s",":","/","/","T","/","P">>
U_port   == <<"i","p","p",":","/","/","T",":","6","/","P">>
U_noport == <<"i","p","p",":","/","/","T","/","P">>
U_other  == <<"i","p","p",":","/","/","T","/","Q">>
U_gone   == <<"i","p","p",":","/","/","T","/","X">>
U_bare   == <<"i","p","p",":","/","/","T","T">>
U_empty  == <<"i","p","p",":","/","/","/","P">>
U_short  == <<"i","p","p",":","T","/","x","/","P">>
U_colon  == <<"i","p","p",":","/","/","T","/","a",":","P">>
U_back   == <<"i","p","p",":","/","/","S","/","P">>
U_class  == <<"i","p","p",":","/","/","T","/","C">>

PrinterURIs == {U_usb, U_ipps, U_port, U_noport, U_other, U_gone, U_bare,
                U_empty, U_short, U_colon}
ClassURIs   == {U_usb, U_class}
RemoteURIs  == {U_usb, U_back}
MemberLists == {<<P>>, <<P, Q>>, <<Q, P>>, <<C>>, <<P, C>>}

\* the printer-info a server reports for one of its queues
InfoOf(h, n) == <<"info", h, n>>

Printer(h, n, uri) == [ptype |-> 0, uri |-> uri, info |-> InfoOf(h, n)]
Class(h, n, uri)   == [ptype |-> CUPS_PRINTER_CLASS, uri |-> uri, info |-> InfoOf(h, n)]

World(uP, uC, mem, hasQ, tP) ==
    [h \in Hosts |->
        IF h = S
        THEN [printers |-> (P :> Printer(S, P, uP)) @@ (C :> Class(S, C, uC))
                           @@ (IF hasQ THEN (Q :> Printer(S, Q, U_usb)) ELSE << >>),
              classes  |-> (C :> mem)]
        ELSE [printers |-> (P :> Printer(T, P, tP)) @@ (Q :> Printer(T, Q, U_usb))
                           @@ (C :> Class(T, C, U_usb)),
              classes  |-> (C :> <<Q>>)]]

Worlds == {World(uP, uC, mem, hasQ, tP) :
              uP \in PrinterURIs, uC \in ClassURIs, mem \in MemberLists,
              hasQ \in BOOLEAN, tP \in RemoteURIs}

\* The machine a host string reaches: a name no server has reaches nothing; the empty
\* string makes the library fall back to its default server, the local machine.
Unreachable == <<"?">>
Resolve(h) ==
    IF h \in Hosts THEN h
    ELSE IF h = LocalHost \/ h = <<>> THEN S
    ELSE Unreachable

\* the orders in which printers.items () can yield the keys of a table
Orders(keys) ==
    {o \in [1..Cardinality(keys) -> keys] : \A i, j \in DOMAIN o : o[i] = o[j] => i = j}

----------------------------------------------------------------------------
(* Frames of the call stack and entries of the output *)

NoQueue == [ptype |-> 0, uri |-> <<>>, info |-> <<>>]
NoTable == << >>
NotPrinted == <<"-">>

\* A frame: fn is the function, pc the place in it, the rest its locals.  `node` is
\* the position in `out` of the node the frame printed (getqueue) or was called
\* for (getippqueue); `via` tells how the frame was called.
Frame(fn, pc, name, queue, host, depth, printers, classes, items, idx, dev, node, via) ==
    [fn |-> fn, pc |-> pc, name |-> name, queue |-> queue, host |-> host,
     depth |-> depth, printers |-> printers, classes |-> classes,
     items |-> items, idx |-> idx, dev |-> dev, node |-> node, via |-> via]

HostFrame(host, printers, classes, items) ==
    Frame("gethost", "loop", <<>>, NoQueue, host, 0, printers, classes, items, 1,
          <<>>, 0, "main")

QueueFrame(name, queue, host, depth, printers, classes, parent, via) ==
    Frame("getqueue", "print", name, queue, host, depth, printers, classes, <<>>, 1,
          <<>>, parent, via)

IppFrame(dev, depth, parent) ==
    Frame("getippqueue", "connect", <<>>, NoQueue, <<>>, depth, NoTable, NoTable,
          <<>>, 1, dev, parent, "follow")

\* the lines getqueue prints for a queue: the name line and, for a printer, the
\* URI and Info lines.  parent and via say where in the tree the node hangs.
Node(depth, name, host, queue, parent, via) ==
    [kind |-> "node", indent |-> do_indent(depth), name |-> name, host |-> host,
     class |-> IsClass(queue),
     uri  |-> IF IsClass(queue) THEN NotPrinted ELSE queue.uri,
     info |-> IF IsClass(queue) THEN NotPrinted ELSE queue.info,
     parent |-> parent, via |-> via]

\* the empty line printed after a top-level queue
Blank ==
    [kind |-> "blank", indent |-> <<>>, name |-> <<>>, host |-> <<>>, class |-> FALSE,
     uri |-> NotPrinted, info |-> NotPrinted, parent |-> 0, via |-> "main"]

NoErr == [exc |-> "none", fn |-> "none"]
NoEv  == [step |-> "none", outcome |-> "none", dev |-> <<>>, host |-> <<>>,
          name |-> <<>>, depth |-> 0, node |-> 0]

Top == stack[Len(stack)]
Pop == SubSeq(stack, 1, Len(stack) - 1)
SetTop(f) == [stack EXCEPT ![Len(stack)] = f]
Call(caller, callee) == Append(SetTop(caller), callee)
CanCall == Len(stack) < MaxStack

\* an exception no frame catches ends the program
Raise(exc, fn) ==
    /\ status' = "aborted"
    /\ err' = [exc |-> exc, fn |-> fn]
    /\ stack' = <<>>

----------------------------------------------------------------------------
(* The state after the module is loaded, before gethost () runs *)

StartArgs == {None, S}

Init ==
    /\ servers \in Worlds
    /\ server = None
    /\ stack = <<>>
    /\ out = <<>>
    /\ status = "init"
    /\ err = NoErr
    /\ conns = {}
    /\ ev = NoEv

----------------------------------------------------------------------------
(* gethost *)

\* gethost up to its loop: bind the server, connect, fetch both tables
GetHost ==
    /\ status = "init"
    /\ \E h \in StartArgs, outcome \in {"ok", "RuntimeError", "IPPError"} :
         LET srv   == IF h # None THEN h ELSE server
             label == IF h # None THEN h ELSE LocalHost
             m     == Resolve(srv)
         IN  /\ server' = srv
             /\ IF outcome = "ok"
                THEN /\ m \in Hosts
                     /\ \E items \in Orders(DOMAIN servers[m].printers) :
                          stack' = <<HostFrame(label, servers[m].printers,
                                               servers[m].classes, items)>>
                     /\ status' = "running"
                     /\ err' = err
                ELSE Raise(outcome, "gethost")
    /\ UNCHANGED <<servers, out, conns, ev>>

\* for name, queue in printers.items (): getqueue (...)
HostLoop ==
    /\ status = "running"
    /\ Top.fn = "gethost"
    /\ IF Top.idx <= Len(Top.items)
       THEN /\ CanCall
            /\ LET name == Top.items[Top.idx]
               IN  stack' = Call([Top EXCEPT !.idx = @ + 1],
                                 QueueFrame(name, Top.printers[name], Top.host,
                                            Top.depth, Top.printers, Top.classes,
                                            0, "top"))
            /\ status' = status
       ELSE /\ stack' = Pop
            /\ status' = "done"
    /\ UNCHANGED <<servers, server, out, err, conns, ev>>

----------------------------------------------------------------------------
(* getqueue *)

\* the variant that labels a queue with the process-wide current server
LabelOf_Server(f) == server

\* the host written after the queue's name
LabelOf(f) == f.host

\* the variant that forgets depth += 1
MemberDepth_Same(depth) == depth

\* depth += 1: the depth a class passes to its members
MemberDepth(depth) == depth + 1

\* getqueue from its first line to the first call it makes
GetQueuePrint ==
    /\ status = "running"
    /\ Top.fn = "getqueue" /\ Top.pc = "print"
    /\ LET f    == Top
           n    == Len(out) + 1
           dev  == f.queue.uri
           me   == [f EXCEPT !.node = n]
       IN  /\ out' = Append(out, Node(f.depth, f.name, LabelOf(f), f.queue, f.node, f.via))
           /\ IF IsIpp(dev)
              THEN /\ CanCall
                   /\ stack' = Call([me EXCEPT !.pc = "after"], IppFrame(dev, f.depth, n))
                   /\ UNCHANGED <<status, err>>
              ELSE IF IsClass(f.queue)
              THEN IF f.name \in DOMAIN f.classes
                   THEN /\ stack' = SetTop([me EXCEPT !.pc = "members",
                                                      !.items = f.classes[f.name],
                                                      !.depth = MemberDepth(f.depth),
                                                      !.idx = 1])
                        /\ UNCHANGED <<status, err>>
                   ELSE Raise("KeyError", "getqueue")
              ELSE /\ stack' = SetTop([me EXCEPT !.pc = "after"])
                   /\ UNCHANGED <<status, err>>
    /\ UNCHANGED <<servers, server, conns, ev>>

\* for member in members: getqueue (member, printers[member], ...)
GetQueueMember ==
    /\ status = "running"
    /\ Top.fn = "getqueue" /\ Top.pc = "members"
    /\ LET f == Top
       IN  IF f.idx <= Len(f.items)
           THEN LET member == f.items[f.idx]
                IN  IF member \in DOMAIN f.printers
                    THEN /\ CanCall
                         /\ stack' = Call([f EXCEPT !.idx = @ + 1],
                                          QueueFrame(member, f.printers[member], f.host,
                                                     f.depth, f.printers, f.classes,
                                                     f.node, "member"))
                         /\ UNCHANGED <<status, err>>
                    ELSE Raise("KeyError", "getqueue")
           ELSE /\ stack' = SetTop([f EXCEPT !.pc = "after"])
                /\ UNCHANGED <<status, err>>
    /\ UNCHANGED <<servers, server, out, conns, ev>>

\* if depth == 0: print; then return
GetQueueReturn ==
    /\ status = "running"
    /\ Top.fn = "getqueue" /\ Top.pc = "after"
    /\ out' = IF Top.depth = 0 THEN Append(out, Blank) ELSE out
    /\ stack' = Pop
    /\ UNCHANGED <<servers, server, status, err, conns, ev>>

----------------------------------------------------------------------------
(* getippqueue *)

\* the variant that passes its own depth on
FollowDepth_Same(depth) == depth

\* depth + 1: the depth a follow passes to the queue it found
FollowDepth(depth) == depth + 1

\* what a connect-and-fetch on host can end in
Outcomes(host) ==
    IF Resolve(host) \in Hosts
    THEN {"ok", "RuntimeError", IPP_OPERATION_NOT_SUPPORTED, IPP_NOT_AUTHORIZED}
    ELSE {"RuntimeError"}

\* getippqueue from its first line to the end of its try statement
GetIppQueueConnect ==
    /\ status = "running"
    /\ Top.fn = "getippqueue" /\ Top.pc = "connect"
    /\ LET f    == Top
           name == ParseName(f.dev)
           host == ParseHost(f.dev)
           m    == Resolve(host)
           me   == [f EXCEPT !.name = name, !.host = host]
       IN  /\ server' = host
           /\ conns' = conns \cup {host}
           /\ \E outcome \in Outcomes(host) :
                /\ ev' = [step |-> "connect", outcome |-> outcome, dev |-> f.dev,
                          host |-> host, name |-> name, depth |-> f.depth,
                          node |-> f.node]
                /\ IF outcome = "ok"
                   THEN stack' = SetTop([me EXCEPT !.pc = "attrs",
                                                   !.printers = servers[m].printers,
                                                   !.classes = servers[m].classes])
                   ELSE IF outcome = "RuntimeError"
                   THEN stack' = Pop
                   ELSE IF IPPErrorEquals([status |-> outcome], IPP_OPERATION_NOT_SUPPORTED)
                   THEN stack' = SetTop([me EXCEPT !.pc = "attrs",
                                                   !.printers = NoTable,
                                                   !.classes = NoTable])
                   ELSE stack' = Pop
    /\ UNCHANGED <<servers, out, status, err>>

\* queue = c.getPrinterAttributes (name); getqueue (name, queue, host, depth + 1, ...)
GetIppQueueAttrs ==
    /\ status = "running"
    /\ Top.fn = "getippqueue" /\ Top.pc = "attrs"
    /\ LET f == Top
           m == Resolve(f.host)
       IN  \E outcome \in {"ok", IPP_NOT_FOUND} :
             /\ outcome = "ok" => f.name \in DOMAIN servers[m].printers
             /\ ev' = [step |-> "attrs", outcome |-> outcome, dev |-> f.dev,
                       host |-> f.host, name |-> f.name, depth |-> f.depth,
                       node |-> f.node]
             /\ IF outcome = "ok"
                THEN /\ CanCall
                     /\ stack' = Call([f EXCEPT !.pc = "ret",
                                                !.queue = servers[m].printers[f.name]],
                                      QueueFrame(f.name, servers[m].printers[f.name],
                                                 f.host, FollowDepth(f.depth),
                                                 f.printers, f.classes, f.node, "follow"))
                     /\ UNCHANGED <<status, err>>
                ELSE Raise("IPPError", "getippqueue")
    /\ UNCHANGED <<servers, server, out, conns>>

\* getippqueue returns once the getqueue it called has returned
GetIppQueueReturn ==
    /\ status = "running"
    /\ Top.fn = "getippqueue" /\ Top.pc = "ret"
    /\ stack' = Pop
    /\ UNCHANGED <<servers, server, out, status, err, conns, ev>>

----------------------------------------------------------------------------

Next ==
    \/ GetHost
    \/ HostLoop
    \/ GetQueuePrint
    \/ GetQueueMember
    \/ GetQueueReturn
    \/ GetIppQueueConnect
    \/ GetIppQueueAttrs
    \/ GetIppQueueReturn

Spec == Init /\ [][Next]_vars

----------------------------------------------------------------------------
(* Reading the output as a tree *)

Nodes == {i \in 1..Len(out) : out[i].kind = "node"}

\* the depth a node was indented for: two spaces per level
DepthOf(i) == Len(out[i].indent) \div 2

\* the nodes printed directly below node i, in the order printed
ChildrenOf(i) == {j \in Nodes : out[j].parent = i}

RECURSIVE StepsTo(_)
\* the number of class-expansion and remote-follow steps from a top-level queue to node i
StepsTo(i) == IF out[i].parent = 0 THEN 0 ELSE 1 + StepsTo(out[i].parent)

RECURSIVE NamesOf(_, _)
\* the names of the nodes of set js among positions k..Len(out), in the order printed
NamesOf(js, k) ==
    IF k > Len(out) THEN <<>>
    ELSE IF k \in js THEN <<out[k].name>> \o NamesOf(js, k + 1)
    ELSE NamesOf(js, k + 1)

\* the attributes the server behind a node's host label reports for the node's name
Reported(i) == servers[Resolve(out[i].host)].printers[out[i].name]
IsReported(i) ==
    /\ Resolve(out[i].host) \in Hosts
    /\ out[i].name \in DOMAIN servers[Resolve(out[i].host)].printers

\* node i shows what queue q is: its class flag and, for a printer, URI and Info
Shows(i, q) ==
    /\ out[i].class = IsClass(q)
    /\ ~IsClass(q) => out[i].uri = q.uri /\ out[i].info = q.info

\* the frame of a call is no longer on the stack
OnStack(i) == \E k \in 1..Len(stack) : stack[k].fn = "getqueue" /\ stack[k].node = i

\* the text after the first SchemeStrip characters of a device URI
Rest(dev) == SubSeq(dev, SchemeStrip + 1, Len(dev))
Has(s, ch) == \E i \in 1..Len(s) : s[i] = ch

\* p is the part of s in front of the first ch
IsPrefixUpTo(p, s, ch) ==
    /\ Len(p) < Len(s)
    /\ p = SubSeq(s, 1, Len(p))
    /\ s[Len(p) + 1] = ch
    /\ ~Has(p, ch)

\* t is the part of s behind the last ch
IsSuffixAfterLast(t, s, ch) ==
    /\ Len(t) < Len(s)
    /\ t = SubSeq(s, Len(s) - Len(t) + 1, Len(s))
    /\ s[Len(s) - Len(t)] = ch
    /\ ~Has(t, ch)

----------------------------------------------------------------------------
(* C1 *)

\* the step in which a follow's connect-and-fetch fails to connect or is answered
\* 'operation not supported'
FollowFails ==
    /\ status = "running"
    /\ Top.fn = "getippqueue" /\ Top.pc = "connect"
    /\ ev'.step = "connect"
    /\ ev'.outcome \in {"RuntimeError", IPP_OPERATION_NOT_SUPPORTED}

----------------------------------------------------------------------------
(* C2 *)

\* C2: no remote-protocol error raised by an operation of a follow step (list
\* printers, list classes, get printer attributes) ends the run.
C2_FollowErrorStaysInBranch == ~(status = "aborted" /\ err.fn = "getippqueue")

----------------------------------------------------------------------------
(* C3 *)

\* the device URI of the queue a node was printed for
DevOf(i) == Reported(i).uri

\* C3 as stated: the node a follow prints is named like the queue it was followed
\* from, is labelled with the host parsed from that queue's device URI, is one level
\* deeper and shows what that host reports for this name; a queue has one such node.
C3_SameName ==
    \A j \in Nodes : out[j].via = "follow" =>
        LET i == out[j].parent
        IN  /\ out[j].name = out[i].name
            /\ out[j].host = ParseHost(DevOf(i))
            /\ DepthOf(j) = DepthOf(i) + 1
            /\ IsReported(j) /\ Shows(j, Reported(j))
            /\ Cardinality(ChildrenOf(i)) = 1

\* C3 amended: the node a follow prints is named by the text after the last '/' of
\* the device URI it was followed from (not by the name of the queue that has the
\* URI), is labelled with the host parsed from the URI, is one level deeper than the
\* queue followed, and shows what that host reports for that name; a followed queue
\* has exactly one such node once the host has reported the attributes.
C3_NameFromURI ==
    /\ \A j \in Nodes : out[j].via = "follow" =>
        LET i == out[j].parent
        IN  /\ IF Has(DevOf(i), "/")
               THEN IsSuffixAfterLast(out[j].name, DevOf(i), "/")
               ELSE out[j].name = DevOf(i)
            /\ out[j].host = ParseHost(DevOf(i))
            /\ DepthOf(j) = DepthOf(i) + 1
            /\ IsReported(j) /\ Shows(j, Reported(j))
            /\ Cardinality(ChildrenOf(i)) = 1
    /\ \A k \in 1..Len(stack) :
        stack[k].fn = "getippqueue" /\ stack[k].pc = "ret" =>
            \/ /\ k < Len(stack)
               /\ stack[k + 1].pc = "print" /\ stack[k + 1].via = "follow"
               /\ stack[k + 1].depth = DepthOf(stack[k].node) + 1
            \/ Cardinality(ChildrenOf(stack[k].node)) = 1

\* queue P of the first host points at queue Q of host T, and the node printed
\* below P is Q as T reports it
C3_Witness ==
    \E j \in Nodes :
        /\ out[j].via = "follow"
        /\ out[j].name = Q /\ out[out[j].parent].name = P
        /\ out[j].host = T /\ out[out[j].parent].host # T
        /\ out[j].info = InfoOf(T, Q)
        /\ DepthOf(j) = 1

----------------------------------------------------------------------------
(* C4 *)

\* a class whose device URI is no remote reference and whose members are all
\* local: none of them is, on the class's host, a queue with an ipp: device URI
\* or a class
LocalClass(i) ==
    /\ out[i].class
    /\ IsReported(i)
    /\ ~IsIpp(DevOf(i))
    /\ out[i].name \in DOMAIN servers[Resolve(out[i].host)].classes
    /\ \A m \in 1..Len(servers[Resolve(out[i].host)].classes[out[i].name]) :
         LET member == servers[Resolve(out[i].host)].classes[out[i].name][m]
             tbl    == servers[Resolve(out[i].host)].printers
         IN  member \in DOMAIN tbl => ~IsIpp(tbl[member].uri) /\ ~IsClass(tbl[member])

\* C4: once the expansion of such a class is over, the nodes directly below it
\* are the entries of its member list, one each, in the stored order, one level
\* deeper and after the class, whether or not a member is in the host's printer table.
C4_MembersRendered ==
    \A i \in Nodes : LocalClass(i) /\ ~OnStack(i) =>
        /\ NamesOf(ChildrenOf(i), 1)
             = servers[Resolve(out[i].host)].classes[out[i].name]
        /\ \A j \in ChildrenOf(i) : j > i /\ DepthOf(j) = DepthOf(i) + 1

----------------------------------------------------------------------------
(* C5 *)

\* C5: no (host, name) pair is entered twice on one root-to-node path.
C5_NoRepeatOnPath ==
    \A k, l \in 1..Len(stack) :
        /\ k < l
        /\ stack[k].fn = "getqueue" /\ stack[l].fn = "getqueue"
        => <<stack[k].host, stack[k].name>> # <<stack[l].host, stack[l].name>>

----------------------------------------------------------------------------
(* C6 *)

----------------------------------------------------------------------------
(* C7 *)

\* C7: when the text after the scheme prefix has neither ':' nor '/', the host
\* connected to is all of that text.
C7_BareHostIsWholeRest ==
    ev.step # "none" /\ ~Has(Rest(ev.dev), ":") /\ ~Has(Rest(ev.dev), "/")
        => ev.host = Rest(ev.dev)

----------------------------------------------------------------------------
(* C8 *)

\* C8: no follow sets the server to, or connects with, an empty host.
C8_NoEmptyHost == <<>> \notin conns

----------------------------------------------------------------------------
(* C9 *)

\* C9: every node is indented for the number of class-expansion and remote-follow
\* steps between its top-level queue and itself, exactly the top-level queues are
\* at depth 0, and every node is printed after the node it hangs below.
C9_DepthIsSteps ==
    \A i \in Nodes :
        /\ out[i].parent < i
        /\ out[i].parent # 0 => out[i].parent \in Nodes
        /\ DepthOf(i) = StepsTo(i)
        /\ out[i].via = "top" <=> out[i].parent = 0
        /\ out[i].indent = [k \in 1..(2 * StepsTo(i)) |-> " "]

\* a queue reached through a class expansion and then a follow, two levels deep,
\* printed after an earlier follow failed
C9_Witness ==
    \E i \in Nodes :
        /\ out[i].via = "follow"
        /\ out[out[i].parent].via = "member"
        /\ DepthOf(i) = 2
        /\ \E j \in Nodes : j < out[i].parent /\ out[j].via = "top"
                            /\ ~out[j].class /\ IsIpp(out[j].uri)
                            /\ ChildrenOf(j) = {}

----------------------------------------------------------------------------
(* C10 *)

\* the frames that hold tables fetched from a server
HoldsTables(f) ==
    \/ f.fn \in {"gethost", "getqueue"}
    \/ f.fn = "getippqueue" /\ f.pc # "connect"

\* C10: whatever follows have run and rebound the current server, every queue of
\* the top-level loop is labelled with the starting host and every member with the
\* host of its class, each shows what that host's table holds for it, and every
\* frame still holds the tables of its own host as fetched.
C10_FollowLeavesCallerAlone ==
    /\ \A i \in Nodes : out[i].via = "top" =>
        /\ out[i].host \in {LocalHost, S}
        /\ \A j \in Nodes : out[j].via = "top" => out[j].host = out[i].host
        /\ IsReported(i) /\ Shows(i, Reported(i))
    /\ \A i \in Nodes : out[i].via = "member" =>
        /\ out[i].host = out[out[i].parent].host
        /\ IsReported(i) /\ Shows(i, Reported(i))
    /\ \A k \in 1..Len(stack) : HoldsTables(stack[k]) =>
        /\ Resolve(stack[k].host) \in Hosts
        /\ stack[k].printers = servers[Resolve(stack[k].host)].printers
        /\ stack[k].classes = servers[Resolve(stack[k].host)].classes

\* a follow has rebound the current server to T and returned, and a later
\* top-level queue was printed for the starting host
C10_Witness ==
    /\ server = T
    /\ \E i, j \in Nodes :
        /\ i < j
        /\ out[i].via = "top" /\ out[j].via = "top"
        /\ ~out[i].class /\ IsIpp(out[i].uri)
        /\ out[j].host = LocalHost
        /\ out[j].info = InfoOf(S, out[j].name)
        /\ \E c \in ChildrenOf(i) : c < j

====
